---- MODULE Spec2Model ----
(***************************************************************************)
(* A model of src/financial_budget.py: the Transaction, Budget and         *)
(* TransactionLog classes and the interactive session FinanceManager.run   *)
(* drives over them.                                                       *)
(*                                                                         *)
(* Numbers.  The program computes with Python floats obtained from         *)
(* float(input()).  A float is modelled as a record [nan, v]: either a     *)
(* whole number v (arithmetic on the modelled range is exact) or the       *)
(* not-a-number value that float("nan") returns, for which every ordered   *)
(* comparison is false and every sum is again not-a-number.  Infinities    *)
(* and rounding lie outside the modelled range of numbers.                 *)
(***************************************************************************)
EXTENDS Integers, Sequences, FiniteSets, TLC

VARIABLES
    pc,            \* where FinanceManager.run is: the prompt it blocks on
    budget,        \* FinanceManager.budget: <<>> is None, <<b>> a Budget
    transactions,  \* TransactionLog._transactions (the list object's items)
    i,             \* the loop variable of run's "for i in range(5)"
    description,   \* the local of get_transaction, read once per call
    clock,         \* the number of datetime.now() readings so far
    invalid,       \* e of the last "Invalid input: {e}" line printed
    warnings,      \* per finished iteration: was the WARNING line printed
    report,        \* <<>>, or the one final summary print_summary printed
    view,          \* the client's reference got from .transactions
    history,       \* the client's own record of its calls and their outcome
    result         \* what the client's last call returned or raised

vars == <<pc, budget, transactions, i, description, clock, invalid,
          warnings, report, view, history, result>>

\* ---------------------------------------------------------------- bounds

\* How many rejected negative amounts one session may enter.
MaxRejected == 2

\* How many calls a client of the classes makes.
MaxCalls == 4

\* The number of expenses run() asks for.
Expenses == 5

\* What the user may type at a numeric prompt.
Inputs == {"-1", "0", "1", "abc", "nan"}

\* What the user may type at the description prompt.
Typed == {"coffee"}

\* The descriptions a client of the classes passes.
Descriptions == {"coffee", "lunch"}

\* ---------------------------------------------------------------- floats

F(n) == [nan |-> FALSE, v |-> n]

NaN == [nan |-> TRUE, v |-> 0]

\* x < y on floats: false when either is not a number.
FLt(x, y) == ~x.nan /\ ~y.nan /\ x.v < y.v

\* x > y on floats.
FGt(x, y) == ~x.nan /\ ~y.nan /\ x.v > y.v

\* x + y on floats.
FAdd(x, y) == IF x.nan \/ y.nan THEN NaN ELSE F(x.v + y.v)

\* x - y on floats.
FSub(x, y) == IF x.nan \/ y.nan THEN NaN ELSE F(x.v - y.v)

\* The amounts a client of the classes passes.
Amounts == {F(-1), F(0), F(1), NaN}

\* ------------------------------------------------------- calls and raises

None == <<>>

Return(x) == [exc |-> "", msg |-> "", val |-> <<x>>]

Raise(type, message) == [exc |-> type, msg |-> message, val |-> <<>>]

\* float(text) of a line read by input().
float(text) ==
    CASE text = "-1" -> Return(F(-1))
      [] text = "0" -> Return(F(0))
      [] text = "1" -> Return(F(1))
      [] text = "nan" -> Return(NaN)
      [] OTHER -> Raise("ValueError", "could not convert string to float")

\* ------------------------------------------------------------ Transaction

\* Transaction(description, amount) at clock reading now: no validation.
Transaction(d, amount, now) ==
    Return([description |-> d, amount |-> amount, timestamp |-> now])

\* ----------------------------------------------------------------- Budget

\* Budget(amount).
Budget(amount) ==
    IF FLt(amount, F(0))
    THEN Raise("ValueError", "Budget cannot be negative")
    ELSE Return([amount |-> amount, spent |-> F(0)])

total_budget(b) == b.amount

total_spent(b) == b.spent

remaining(b) == FSub(b.amount, b.spent)

\* The comparison slipped to >=.
is_exceeded_at_limit(b) == ~b.spent.nan /\ ~b.amount.nan /\ b.spent.v >= b.amount.v

is_exceeded(b) == FGt(b.spent, b.amount)

deficit(b) == IF is_exceeded(b) THEN FSub(b.spent, b.amount) ELSE F(0)

\* add_expense without its check of the amount.
add_expense_unchecked(b, amount) ==
    Return([b EXCEPT !.spent = FAdd(b.spent, amount)])

\* b.add_expense(amount): the Budget afterwards, or the raise.
add_expense(b, amount) ==
    IF FLt(amount, F(0))
    THEN Raise("ValueError", "Expense amount cannot be negative")
    ELSE Return([b EXCEPT !.spent = FAdd(b.spent, amount)])

\* --------------------------------------------------------- TransactionLog

\* add_transaction putting the new Transaction first instead of last.
add_transaction_first(ts, d, amount, now) ==
    LET t == Transaction(d, amount, now)
    IN  Return([items |-> <<t.val[1]>> \o ts, transaction |-> t.val[1]])

\* log.add_transaction(description, amount) on the list with items ts:
\* the items afterwards and the Transaction returned, or the raise.
add_transaction(ts, d, amount, now) ==
    LET t == Transaction(d, amount, now)
    IN  IF t.exc # ""
        THEN t
        ELSE Return([items |-> Append(ts, t.val[1]), transaction |-> t.val[1]])

count(ts) == Len(ts)

RECURSIVE SumFrom(_, _, _)
SumFrom(ts, k, acc) ==
    IF k > Len(ts) THEN acc ELSE SumFrom(ts, k + 1, FAdd(acc, ts[k].amount))

\* log.get_total(): sum() adds left to right from 0.
get_total(ts) == SumFrom(ts, 1, F(0))

\* iter(log): the items in list order.
iterate(ts) == ts

\* log.transactions: what the property hands out.  The code returns the
\* list object itself; a copy would be [object |-> "copy", items |-> ts].
transactions_property(ts) == [object |-> "log._transactions", items |-> <<>>]

\* --------------------------------------------------------- FinanceManager

\* An except clause naming another exception type.
Caught_TypeError(exc) == exc = "TypeError"

\* The except clause of get_budget and get_transaction.
Caught(exc) == exc = "ValueError"

\* check_budget_status(): whether the WARNING line is printed.
check_budget_status(b) == is_exceeded(b)

\* print_summary(): the lines printed.
print_summary(b, ts) ==
    [initial_budget |-> total_budget(b),
     total_expenses |-> total_spent(b),
     balance |-> IF is_exceeded(b)
                 THEN <<"Deficit", deficit(b)>>
                 ELSE <<"Remaining Balance", remaining(b)>>,
     log |-> [n \in 1..Len(iterate(ts)) |->
                [number |-> n,
                 description |-> iterate(ts)[n].description,
                 amount |-> iterate(ts)[n].amount,
                 timestamp |-> iterate(ts)[n].timestamp]]]

\* The negative amounts a session has left in its log.
Rejected == Len(transactions) - i

Init ==
    /\ pc = "get_budget"
    /\ budget = None
    /\ transactions = <<>>
    /\ i = 0
    /\ description = ""
    /\ clock = 0
    /\ invalid = ""
    /\ warnings = <<>>
    /\ report = <<>>
    /\ view = <<>>
    /\ history = <<>>
    /\ result = Return(0)

UnchangedClient == UNCHANGED <<view, history, result>>

\* One round of get_budget's loop, on the line text.
get_budget(text) ==
    /\ pc = "get_budget"
    /\ LET a == float(text)
           b == IF a.exc = "" THEN Budget(a.val[1]) ELSE a
       IN  IF b.exc = ""
           THEN /\ budget' = <<b.val[1]>>
                /\ pc' = "get_description"
                /\ UNCHANGED invalid
           ELSE IF Caught(b.exc)
           THEN /\ invalid' = b.msg
                /\ UNCHANGED <<budget, pc>>
           ELSE /\ pc' = "aborted"
                /\ UNCHANGED <<budget, invalid>>
    /\ UNCHANGED <<transactions, i, description, clock, warnings, report>>
    /\ UnchangedClient

\* The first line of get_transaction: the description is read.
get_description(d) ==
    /\ pc = "get_description"
    /\ description' = d
    /\ pc' = "get_amount"
    /\ UNCHANGED <<budget, transactions, i, clock, invalid, warnings, report>>
    /\ UnchangedClient

\* One round of get_transaction's loop, on the line text, and, when it
\* returns, the rest of run's iteration: check_budget_status, the next
\* iteration or print_summary.
get_transaction(text) ==
    /\ pc = "get_amount"
    /\ LET a == float(text)
           t == IF a.exc = ""
                THEN add_transaction(transactions, description, a.val[1], clock)
                ELSE a
           e == IF t.exc = "" THEN add_expense(budget[1], a.val[1]) ELSE t
       IN  /\ t.exc = "" /\ e.exc # "" => Rejected < MaxRejected
           /\ IF t.exc = ""
              THEN /\ transactions' = t.val[1].items
                   /\ clock' = clock + 1
              ELSE UNCHANGED <<transactions, clock>>
           /\ IF e.exc = ""
              THEN /\ budget' = <<e.val[1]>>
                   /\ warnings' = Append(warnings, check_budget_status(e.val[1]))
                   /\ i' = i + 1
                   /\ IF i + 1 < Expenses
                      THEN /\ pc' = "get_description"
                           /\ UNCHANGED report
                      ELSE /\ pc' = "done"
                           /\ report' = <<print_summary(e.val[1], transactions')>>
                   /\ UNCHANGED invalid
              ELSE IF Caught(e.exc)
              THEN /\ invalid' = e.msg
                   /\ UNCHANGED <<budget, warnings, i, pc, report>>
              ELSE /\ pc' = "aborted"
                   /\ UNCHANGED <<budget, warnings, i, invalid, report>>
    /\ UNCHANGED description
    /\ UnchangedClient

\* FinanceManager().run(): the session, one prompt answered per step.
Next ==
    \/ \E text \in Inputs : get_budget(text)
    \/ \E d \in Typed : get_description(d)
    \/ \E text \in Inputs : get_transaction(text)

Spec == Init /\ [][Next]_vars

\* ---------------------------------------------------- clients of the classes

\* A client that holds one Budget and one TransactionLog and calls them.
InitClient ==
    /\ pc = "client"
    /\ budget = None
    /\ transactions = <<>>
    /\ i = 0
    /\ description = ""
    /\ clock = 0
    /\ invalid = ""
    /\ warnings = <<>>
    /\ report = <<>>
    /\ view = <<>>
    /\ history = <<>>
    /\ result = Return(0)

UnchangedSession ==
    UNCHANGED <<pc, i, description, invalid, warnings, report>>

Called(op, arg, r) == Append(history, [op |-> op, arg |-> arg, exc |-> r.exc])

\* budget = Budget(amount)
call_Budget(amount) ==
    /\ pc = "client" /\ Len(history) < MaxCalls
    /\ budget = None
    /\ LET r == Budget(amount)
       IN  /\ budget' = IF r.exc = "" THEN <<r.val[1]>> ELSE budget
           /\ history' = Called("Budget", amount, r)
           /\ result' = r
    /\ UNCHANGED <<transactions, clock, view>>
    /\ UnchangedSession

\* budget.add_expense(amount)
call_add_expense(amount) ==
    /\ pc = "client" /\ Len(history) < MaxCalls
    /\ budget # None
    /\ LET r == add_expense(budget[1], amount)
       IN  /\ budget' = IF r.exc = "" THEN <<r.val[1]>> ELSE budget
           /\ history' = Called("add_expense", amount, r)
           /\ result' = IF r.exc = "" THEN Return(0) ELSE r
    /\ UNCHANGED <<transactions, clock, view>>
    /\ UnchangedSession

NextBudget ==
    \/ \E amount \in Amounts : call_Budget(amount)
    \/ \E amount \in Amounts : call_add_expense(amount)

SpecBudget == InitClient /\ [][NextBudget]_vars

\* log.add_transaction(d, amount)
call_add_transaction(d, amount) ==
    /\ pc = "client" /\ Len(history) < MaxCalls
    /\ LET r == add_transaction(transactions, d, amount, clock)
       IN  /\ transactions' = IF r.exc = "" THEN r.val[1].items ELSE transactions
           /\ clock' = clock + 1
           /\ history' = Called("add_transaction", <<d, amount>>, r)
           /\ result' = IF r.exc = "" THEN Return(r.val[1].transaction) ELSE r
    /\ UNCHANGED <<budget, view>>
    /\ UnchangedSession

\* log.get_total()
call_get_total ==
    /\ pc = "client" /\ Len(history) < MaxCalls
    /\ result' = Return(get_total(transactions))
    /\ history' = Called("get_total", <<>>, result')
    /\ UNCHANGED <<budget, transactions, clock, view>>
    /\ UnchangedSession

\* log.count and len(log)
call_count ==
    /\ pc = "client" /\ Len(history) < MaxCalls
    /\ result' = Return(count(transactions))
    /\ history' = Called("count", <<>>, result')
    /\ UNCHANGED <<budget, transactions, clock, view>>
    /\ UnchangedSession

\* list(log): the iteration, run to its end
call_iter ==
    /\ pc = "client" /\ Len(history) < MaxCalls
    /\ result' = Return(iterate(transactions))
    /\ history' = Called("iter", <<>>, result')
    /\ UNCHANGED <<budget, transactions, clock, view>>
    /\ UnchangedSession

NextLog ==
    \/ \E d \in Descriptions, amount \in Amounts : call_add_transaction(d, amount)
    \/ call_get_total
    \/ call_count
    \/ call_iter

SpecLog == InitClient /\ [][NextLog]_vars

\* The list a reference denotes.
Deref(ref) ==
    IF ref.object = "log._transactions" THEN transactions ELSE ref.items

\* A list method called through the client's reference: the list it
\* denotes becomes items.
Store(items) ==
    IF view[1].object = "log._transactions"
    THEN /\ transactions' = items
         /\ UNCHANGED view
    ELSE /\ view' = <<[view[1] EXCEPT !.items = items]>>
         /\ UNCHANGED transactions

Reverse(s) == [k \in 1..Len(s) |-> s[Len(s) + 1 - k]]

\* view = log.transactions
call_transactions ==
    /\ pc = "client" /\ Len(history) < MaxCalls
    /\ view' = <<transactions_property(transactions)>>
    /\ result' = Return(view'[1])
    /\ history' = Called("transactions", <<>>, result')
    /\ UNCHANGED <<budget, transactions, clock>>
    /\ UnchangedSession

\* view.append(Transaction(d, amount))
view_append(d, amount) ==
    /\ pc = "client" /\ Len(history) < MaxCalls
    /\ view # <<>>
    /\ Store(Append(Deref(view[1]), Transaction(d, amount, clock).val[1]))
    /\ clock' = clock + 1
    /\ result' = Return(0)
    /\ history' = Called("view.append", <<d, amount>>, result')
    /\ UNCHANGED budget
    /\ UnchangedSession

\* view.pop()
view_pop ==
    /\ pc = "client" /\ Len(history) < MaxCalls
    /\ view # <<>>
    /\ LET items == Deref(view[1])
       IN  IF items = <<>>
           THEN /\ result' = Raise("IndexError", "pop from empty list")
                /\ UNCHANGED <<transactions, view>>
           ELSE /\ result' = Return(items[Len(items)])
                /\ Store(SubSeq(items, 1, Len(items) - 1))
    /\ history' = Called("view.pop", <<>>, result')
    /\ UNCHANGED <<budget, clock>>
    /\ UnchangedSession

\* view.reverse()
view_reverse ==
    /\ pc = "client" /\ Len(history) < MaxCalls
    /\ view # <<>>
    /\ Store(Reverse(Deref(view[1])))
    /\ result' = Return(0)
    /\ history' = Called("view.reverse", <<>>, result')
    /\ UNCHANGED <<budget, clock>>
    /\ UnchangedSession

NextView ==
    \/ \E d \in Descriptions, amount \in Amounts : call_add_transaction(d, amount)
    \/ call_get_total
    \/ call_count
    \/ call_iter
    \/ call_transactions
    \/ view_append("lunch", F(1))
    \/ view_pop
    \/ view_reverse

SpecView == InitClient /\ [][NextView]_vars

\* ------------------------------------------------------------- the session,
\* with the user giving an accepted answer at each prompt sooner or later

Accepted ==
    \/ \E text \in Inputs : get_budget(text) /\ pc' # pc
    \/ \E d \in Typed : get_description(d)
    \/ \E text \in Inputs : get_transaction(text) /\ pc' # pc

LiveSpec == Spec /\ WF_vars(Accepted)

\* ------------------------------------------------------------- properties

\* x >= y on floats.
FGe(x, y) == ~x.nan /\ ~y.nan /\ x.v >= y.v

NonNegative(x) == FGe(x, F(0))

Max(a, b) == IF a >= b THEN a ELSE b

Last(s) == s[Len(s)]

Front(s) == SubSeq(s, 1, Len(s) - 1)

\* The last call the client made, when it made one in this step.
Calls(ops) == history' # history /\ Last(history').op \in ops

\* The session so far was answered with numbers and non-numeric text only:
\* nothing in it is not-a-number.
Numeric ==
    /\ budget # None => ~total_budget(budget[1]).nan
    /\ \A k \in 1..Len(transactions) : ~transactions[k].amount.nan

\* C1: in every state of a session answered with valid numbers, negative
\* numbers and non-numeric text, the amounts in the log add up to the
\* budget's total_spent, and the log holds exactly one transaction per
\* expense added to the budget.
C1_LogMatchesBudget ==
    Numeric =>
        /\ budget = None => transactions = <<>>
        /\ budget # None =>
            /\ get_total(transactions) = total_spent(budget[1])
            /\ count(transactions) = i

\* C2: when run() has printed the final summary the log holds exactly 5
\* transactions and the printed list is numbered 1 to 5.
C2_ExactlyFive ==
    Numeric /\ pc = "done" =>
        /\ count(transactions) = Expenses
        /\ DOMAIN report[1].log = 1..Expenses
        /\ \A n \in DOMAIN report[1].log : report[1].log[n].number = n

\* C3: no transaction with a negative amount is ever in the log.
C3_NoNegativeAmount ==
    Numeric => \A k \in 1..Len(transactions) : ~FLt(transactions[k].amount, F(0))

IsExpense(h) == h.op = "add_expense"

Spendings == SelectSeq(history, IsExpense)

RECURSIVE SumOfArgs(_)
SumOfArgs(s) == IF s = <<>> THEN 0 ELSE SumOfArgs(Front(s)) + Last(s).arg.v

C4_Applies ==
    /\ budget # None
    /\ NonNegative(total_budget(budget[1]))
    /\ \A k \in 1..Len(Spendings) : NonNegative(Spendings[k].arg)

\* C4: for a Budget built with a non-negative limit L and given non-negative
\* amounts, total_spent is their sum, is_exceeded holds exactly when the sum
\* is greater than L, deficit is max(sum - L, 0) and remaining is L - sum.
C4_BudgetArithmetic ==
    C4_Applies =>
        LET b == budget[1]
            L == total_budget(b).v
            sum == SumOfArgs(Spendings)
        IN  /\ total_spent(b) = F(sum)
            /\ is_exceeded(b) <=> sum > L
            /\ deficit(b) = F(Max(sum - L, 0))
            /\ remaining(b) = F(L - sum)

C4_Witness ==
    /\ C4_Applies
    /\ Len(Spendings) >= 2
    /\ is_exceeded(budget[1])
    /\ deficit(budget[1]) = F(1)

\* C5: add_expense with a negative amount raises ValueError and leaves the
\* Budget, and so total_spent, total_budget, remaining, is_exceeded and
\* deficit, as they were.
C5_NegativeExpenseRejected ==
    [][Calls({"add_expense"}) /\ FLt(Last(history').arg, F(0)) =>
        /\ result'.exc = "ValueError"
        /\ budget' = budget
        /\ total_spent(budget'[1]) = total_spent(budget[1])
        /\ total_budget(budget'[1]) = total_budget(budget[1])
        /\ remaining(budget'[1]) = remaining(budget[1])
        /\ is_exceeded(budget'[1]) = is_exceeded(budget[1])
        /\ deficit(budget'[1]) = deficit(budget[1])]_vars

C5_Witness ==
    /\ Len(history) >= 3
    /\ Last(history).op = "add_expense"
    /\ FLt(Last(history).arg, F(0))
    /\ Last(history).exc = "ValueError"
    /\ FGt(total_spent(budget[1]), F(0))

\* C6: at the budget prompt no Budget is set, and the session is past the
\* budget prompt only with a Budget whose limit is >= 0.
C6_BudgetSetOnlyWhenValid ==
    /\ pc = "get_budget" => budget = None
    /\ pc # "get_budget" =>
        /\ budget # None
        /\ NonNegative(total_budget(budget[1]))

IsAdd(h) == h.op = "add_transaction" /\ h.exc = ""

Adds(h) == SelectSeq(h, IsAdd)

RECURSIVE SumOfAmounts(_)
SumOfAmounts(s) ==
    IF s = <<>> THEN F(0) ELSE FAdd(SumOfAmounts(Front(s)), Last(s).arg[2])

\* The log holds what the add_transaction calls of h put into it, in order.
LogHolds(ts, h) ==
    /\ count(ts) = Len(Adds(h))
    /\ Len(iterate(ts)) = Len(Adds(h))
    /\ \A k \in 1..Len(Adds(h)) :
        /\ iterate(ts)[k].description = Adds(h)[k].arg[1]
        /\ iterate(ts)[k].amount = Adds(h)[k].arg[2]
    /\ get_total(ts) = SumOfAmounts(Adds(h))

\* C7: count equals the number of add_transaction calls made, iteration
\* yields their transactions in call order, get_total is the sum of their
\* amounts and changes nothing, and every add_transaction keeps the
\* entries stored before it as a prefix of the new sequence.
C7_AppendOnlyOrdered ==
    [][/\ LogHolds(transactions', history')
       /\ Calls({"add_transaction"}) =>
            /\ Len(transactions') = Len(transactions) + 1
            /\ SubSeq(transactions', 1, Len(transactions)) = transactions
            /\ result'.val[1] = Last(transactions')
       /\ Calls({"get_total", "count", "iter"}) => transactions' = transactions
       /\ Calls({"get_total"}) => result'.val[1] = SumOfAmounts(Adds(history))
       /\ Calls({"count"}) => result'.val[1] = Len(Adds(history))]_vars

C7_Witness ==
    /\ Len(transactions) = 2
    /\ transactions[1].description = "coffee"
    /\ transactions[2].description = "lunch"
    /\ Len(history) >= 3
    /\ Last(history).op = "get_total"
    /\ result.val[1] = F(2)

\* C8: nothing a caller does to the value the transactions property
\* returned changes the log's count, total or iteration order.
C8_ViewCannotMutate ==
    [][Calls({"view.append", "view.pop", "view.reverse"}) =>
        /\ count(transactions') = count(transactions)
        /\ get_total(transactions') = get_total(transactions)
        /\ iterate(transactions') = iterate(transactions)]_vars

\* An answer at a prompt that the program rejects: the prompt is repeated.
Retry ==
    \/ \E text \in Inputs : get_budget(text) /\ pc' = pc
    \/ \E text \in Inputs : get_transaction(text) /\ pc' = pc

\* One answered prompt: the same prompt again with the iteration counter
\* as it was, or the next prompt; never an abort.
PromptStep ==
    /\ pc' # "aborted"
    /\ \/ pc' = pc /\ i' = i
       \/ pc = "get_budget" /\ pc' = "get_description" /\ i' = i
       \/ pc = "get_description" /\ pc' = "get_amount" /\ i' = i
       \/ /\ pc = "get_amount" /\ i' = i + 1
          /\ pc' = IF i' = Expenses THEN "done" ELSE "get_description"
    /\ report' # <<>> <=> pc' = "done"

\* C9: an answer at a prompt repeats the prompt or makes progress and never
\* aborts the session, a rejected answer can always be followed by another
\* try, and with an accepted answer given at each prompt sooner or later
\* the session reaches the final summary after the 5th expense.
C9_NeverAborts ==
    /\ [][PromptStep]_vars
    /\ [](pc \in {"get_budget", "get_amount"} => ENABLED Retry)
    /\ <>(pc = "done" /\ i = Expenses /\ report # <<>>)

C9_Witness ==
    /\ pc = "done"
    /\ report # <<>>
    /\ invalid = "Expense amount cannot be negative"
    /\ Rejected > 0

\* C10: the limit is fixed and >= 0, total_spent is >= 0 and never
\* decreases, is_exceeded once true stays true, and once the warning was
\* printed it is printed after every later entry.
C10_BudgetMonotone ==
    [][/\ budget' # None =>
            /\ NonNegative(total_budget(budget'[1]))
            /\ NonNegative(total_spent(budget'[1]))
       /\ budget # None =>
            /\ budget' # None
            /\ total_budget(budget'[1]) = total_budget(budget[1])
            /\ FGe(total_spent(budget'[1]), total_spent(budget[1]))
            /\ is_exceeded(budget[1]) => is_exceeded(budget'[1])
       /\ \A j \in 1..Len(warnings'), k \in 1..Len(warnings') :
            j < k /\ warnings'[j] => warnings'[k]]_vars

====
